---- MODULE Spec2Model ----
(***************************************************************************)
(* Runtime loader and discovery lifecycle of obs-ndi                       *)
(* (src/src/forms/output-settings.cpp): load_ndilib, obs_module_load,      *)
(* obs_module_unload and restart_ndi_finder over the module globals        *)
(* ndiLib, loaded_lib, ndi_finder, _config and _output_manager.            *)
(*                                                                         *)
(* The NDI runtime, the QLibrary objects and the filesystem are external:  *)
(* they are modelled by what the calls made on them do (modules, rt,       *)
(* live), and every call the handlers issue is recorded, in order, in      *)
(* calls together with the external state at the moment it is issued.      *)
(* "delete loaded_lib" is taken as the release of the loaded module, as    *)
(* the source's comment on loaded_lib intends.                             *)
(***************************************************************************)
EXTENDS Integers, Sequences, FiniteSets, TLC

\* ---------------------------------------------------------------- bounds
\* only the first MaxDirs candidate directories may hold the library file
MaxDirs == 2
\* calls of obs_module_load in one behaviour
MaxLoads == 2

\* ---------------------------------------------------------- environment
\* libraryLocations holds the override directory (1) and five fallbacks
NumFallback == 5
RedistDir == 1
FallbackDirs == 2 .. (NumFallback + 1)
Dirs == {RedistDir} \cup FallbackDirs

\* what the filesystem and the loader answer for the file of one directory:
\* exists()&&isFile() false / load() false / resolve() null / entry found
Outcomes == {"absent", "loadfail", "nosym", "valid"}

\* a string is the sequence of its characters (1, 2, ...); 0 is the
\* terminating NUL of c_str()
NUL == 0

\* std::string::c_str(): the characters followed by the terminating NUL
c_str(str) == Append(str, NUL)
\* a null char pointer: no bytes at all
NULLPTR == <<>>
\* what the callee reads from a char pointer: the characters before the first NUL
RECURSIVE CStrRead(_)
CStrRead(p) ==
    IF p = <<>> \/ Head(p) = NUL THEN <<>> ELSE <<Head(p)>> \o CStrRead(Tail(p))

\* the configuration object (obs_ndi_config); NoConfig is the empty config_ptr.
\* The configurations considered: the default one and, for each field, the default
\* with that field changed.
NoGroup == <<-1>>
DefaultConfig == [showLocalSources |-> TRUE, groupFilter |-> NoGroup, ndi_extra_ips |-> <<>>]
DiscoveryConfig ==
    {DefaultConfig,
     [DefaultConfig EXCEPT !.showLocalSources = FALSE],
     [DefaultConfig EXCEPT !.groupFilter = <<1, 2>>],
     [DefaultConfig EXCEPT !.ndi_extra_ips = <<1, 2>>]}
NoConfig == [showLocalSources |-> FALSE, groupFilter |-> NoGroup, ndi_extra_ips |-> <<-1>>]

\* null values of the three globals
NoLib == <<0, 0>>
nullptr == 0
NoDesc == [show_local_sources |-> FALSE, p_groups |-> NULLPTR, p_extra_ips |-> NULLPTR]

VARIABLES
    redistFolder,    \* std::getenv(NDILIB_REDIST_FOLDER) is set
    posix,           \* built with __linux__ or __APPLE__
    fs,              \* Dirs -> Outcomes: the library file of each directory
    initialize_ok,   \* what ndiLib->initialize() answers on this host
    config,          \* _config
    output_manager,  \* _output_manager is set
    registered,      \* input/output infos and settings dialog registered
    ndiLib,          \* the capability table: the library object it came from
    loaded_lib,      \* the QLibrary pointer
    ndi_finder,      \* the discovery handle pointer
    modules,         \* QLibrary objects alive with their module loaded
    rt,              \* state of the NDI runtime
    live,            \* discovery handles created and not destroyed
    acts,            \* obs_module_load calls so far
    initCalls,       \* initialize() calls so far
    crashed,         \* the process faulted on undefined behaviour
    calls,           \* the external calls of the last operation, in order
    lastOp,          \* the last operation run
    ret,             \* its return value
    ui,              \* the widgets of the OutputSettings form
    conf,            \* Config::Current(): the fields the form writes
    saved,           \* the configuration last written by Config::Save()
    main_output_running, \* the main output is running
    formCalls        \* the calls of the last onFormAccepted, in order

envvars == <<redistFolder, posix, fs, initialize_ok>>
progvars == <<config, output_manager, registered, ndiLib, loaded_lib, ndi_finder>>
worldvars == <<modules, rt, live, acts, initCalls, crashed>>
obsvars == <<calls, lastOp, ret>>
formvars == <<ui, conf, saved, main_output_running, formCalls>>
vars == <<envvars, progvars, worldvars, obsvars, formvars>>

\* ------------------------------------------------------- state as a record
\* The handlers are written as functions of the record of all mutable state;
\* ubCrash is how undefined behaviour turns out in this handler run.
St(ubCrash) ==
    [config |-> config, output_manager |-> output_manager, registered |-> registered,
     ndiLib |-> ndiLib, loaded_lib |-> loaded_lib, ndi_finder |-> ndi_finder,
     modules |-> modules, rt |-> rt, live |-> live, acts |-> acts,
     initCalls |-> initCalls, crashed |-> FALSE, calls |-> <<>>, ret |-> FALSE,
     retLib |-> NoLib, retFinder |-> nullptr, ubCrash |-> ubCrash]

Commit(s, op) ==
    /\ config' = s.config
    /\ output_manager' = s.output_manager
    /\ registered' = s.registered
    /\ ndiLib' = s.ndiLib
    /\ loaded_lib' = s.loaded_lib
    /\ ndi_finder' = s.ndi_finder
    /\ modules' = s.modules
    /\ rt' = s.rt
    /\ live' = s.live
    /\ acts' = s.acts
    /\ initCalls' = s.initCalls
    /\ crashed' = s.crashed
    /\ calls' = s.calls
    /\ ret' = s.ret
    /\ lastOp' = op
    /\ UNCHANGED <<envvars, formvars>>

\* one external call, with the external state at the moment it is issued
Ev(s, op, obj, h, ok, ub, desc) ==
    [op |-> op, obj |-> obj, h |-> h, ok |-> ok, ub |-> ub, desc |-> desc,
     live |-> s.live, rt |-> s.rt, mods |-> s.modules]

\* a call that is undefined behaviour either faults the process or goes on
Call(s, e, after) ==
    IF s.crashed THEN s
    ELSE IF e.ub /\ s.ubCrash THEN [s EXCEPT !.calls = Append(@, e), !.crashed = TRUE]
    ELSE [after EXCEPT !.calls = Append(s.calls, e)]

\* how undefined behaviour can turn out in a handler run: the choice only
\* exists when the run (taken without fault) meets undefined behaviour
Outcomes_ub(r) == IF \E i \in DOMAIN r.calls : r.calls[i].ub THEN BOOLEAN ELSE {FALSE}

\* a call through the capability table after its library was released
Stale(s) == s.ndiLib \notin s.modules

\* ------------------------------------------------------ the external calls
\* new QLibrary(libFilePath): a fresh object, no module loaded yet
QLibrary_new(s, obj) ==
    Call(s, Ev(s, "new", obj, nullptr, TRUE, FALSE, NoDesc), s)

\* QLibrary::load(): on success the object holds its module loaded
QLibrary_load(s, obj, ok) ==
    Call(s, Ev(s, "load", obj, nullptr, ok, FALSE, NoDesc),
         IF ok THEN [s EXCEPT !.modules = @ \cup {obj}] ELSE s)

\* QLibrary::resolve("NDIlib_v5_load")
QLibrary_resolve(s, obj, ok) ==
    Call(s, Ev(s, "resolve", obj, nullptr, ok, FALSE, NoDesc), s)

\* delete of a QLibrary: releases its module; allocated says the object is
\* one made by new and not deleted since (a second delete is undefined)
QLibrary_delete(s, obj, allocated) ==
    Call(s, Ev(s, "delete", obj, nullptr, TRUE, ~allocated, NoDesc),
         [s EXCEPT !.modules = @ \ {obj}])

\* ndiLib->initialize()
NDI_initialize(s) ==
    Call(s, Ev(s, "initialize", s.ndiLib, nullptr, initialize_ok, Stale(s), NoDesc),
         [s EXCEPT !.rt = IF initialize_ok THEN "Initialized" ELSE "Failed",
                   !.initCalls = @ + 1])

\* ndiLib->destroy()
NDI_destroy(s) ==
    Call(s, Ev(s, "destroy", s.ndiLib, nullptr, TRUE, Stale(s), NoDesc),
         [s EXCEPT !.rt = "Uninitialized"])

\* ndiLib->find_destroy(h): destroying a handle that is not live is undefined
NDI_find_destroy(s, h) ==
    Call(s, Ev(s, "find_destroy", s.ndiLib, h, TRUE, Stale(s) \/ h \notin s.live, NoDesc),
         [s EXCEPT !.live = @ \ {h}])

\* the handle the runtime hands out next: the first one that is not live
\* (the address of a destroyed handle may be handed out again)
NewFinder(s) == CHOOSE h \in 1 .. (Cardinality(s.live) + 1) :
                    /\ h \notin s.live
                    /\ \A g \in 1 .. (h - 1) : g \in s.live

\* ndiLib->find_create_v2(&desc): a fresh handle, or null on failure;
\* retFinder is what the call returns
NDI_find_create_v2(s, desc, ok) ==
    Call(s, Ev(s, "find_create_v2", s.ndiLib, IF ok THEN NewFinder(s) ELSE nullptr,
               ok, Stale(s), desc),
         IF ok THEN [s EXCEPT !.live = @ \cup {NewFinder(s)},
                              !.retFinder = NewFinder(s)]
         ELSE [s EXCEPT !.retFinder = nullptr])

\* ------------------------------------------------------------ load_ndilib
\* a faulty list: the override is appended after the platform's fallbacks
libraryLocations_override_last ==
    (IF posix THEN [i \in 1 .. NumFallback |-> i + 1] ELSE <<>>) \o
    (IF redistFolder THEN <<RedistDir>> ELSE <<>>)

\* libraryLocations: the override first, then the platform's fallbacks
libraryLocations ==
    (IF redistFolder THEN <<RedistDir>> ELSE <<>>) \o
    (IF posix THEN [i \in 1 .. NumFallback |-> i + 1] ELSE <<>>)

RECURSIVE load_loop(_, _)

\* a faulty loop: a later valid candidate replaces an earlier one
load_loop_last_wins(s, i) ==
    IF i > Len(libraryLocations) THEN [s EXCEPT !.retLib = NoLib]
    ELSE
      LET path == libraryLocations[i]
          obj == <<s.acts, path>>
      IN IF fs[path] # "valid" THEN load_loop(s, i + 1)
         ELSE
           LET s1 == [QLibrary_new(s, obj) EXCEPT !.loaded_lib = obj]
               s2 == QLibrary_load(s1, obj, TRUE)
               s3 == QLibrary_resolve(s2, obj, TRUE)
               later == load_loop(s3, i + 1)
           IN IF later.retLib # NoLib THEN later ELSE [later EXCEPT !.retLib = obj]

\* a faulty loop: the search stops at the first file that fails to load
load_loop_stop_on_load_failure(s, i) ==
    IF i > Len(libraryLocations) THEN [s EXCEPT !.retLib = NoLib]
    ELSE
      LET path == libraryLocations[i]
          obj == <<s.acts, path>>
      IN IF fs[path] = "absent" THEN load_loop(s, i + 1)
         ELSE
           LET s1 == [QLibrary_new(s, obj) EXCEPT !.loaded_lib = obj]
               s2 == QLibrary_load(s1, obj, fs[path] # "loadfail")
           IN IF fs[path] = "loadfail"
              THEN [QLibrary_delete(s2, obj, TRUE) EXCEPT !.loaded_lib = NoLib,
                                                          !.retLib = NoLib]
              ELSE
                LET s3 == QLibrary_resolve(s2, obj, fs[path] = "valid")
                IN IF fs[path] = "valid"
                   THEN [s3 EXCEPT !.retLib = obj]
                   ELSE load_loop(s3, i + 1)

\* the for loop of load_ndilib from candidate i on; retLib is its result
load_loop(s, i) ==
    IF i > Len(libraryLocations) THEN [s EXCEPT !.retLib = NoLib]
    ELSE
      LET path == libraryLocations[i]
          obj == <<s.acts, path>>
      IN IF fs[path] = "absent" THEN load_loop(s, i + 1)
         ELSE
           LET s1 == [QLibrary_new(s, obj) EXCEPT !.loaded_lib = obj]
               s2 == QLibrary_load(s1, obj, fs[path] # "loadfail")
           IN IF fs[path] = "loadfail"
              THEN load_loop([QLibrary_delete(s2, obj, TRUE) EXCEPT !.loaded_lib = NoLib],
                             i + 1)
              ELSE
                LET s3 == QLibrary_resolve(s2, obj, fs[path] = "valid")
                IN IF fs[path] = "valid"
                   THEN [s3 EXCEPT !.retLib = obj]
                   ELSE load_loop(s3, i + 1)

load_ndilib(s) == load_loop(s, 1)

\* ----------------------------------------------------- restart_ndi_finder
\* a faulty descriptor: the extra addresses are not passed on
find_desc_no_ips(cfg) ==
    [show_local_sources |-> TRUE, p_groups |-> NULLPTR, p_extra_ips |-> NULLPTR]

\* the NDIlib_find_create_t built from _config
find_desc(cfg) ==
    [show_local_sources |-> TRUE,
     p_groups |-> NULLPTR,
     p_extra_ips |-> c_str(cfg.ndi_extra_ips)]

\* a faulty restart: the replacement is created before the old handle is destroyed
restart_ndi_finder_create_first(s, create_ok) ==
    IF s.ndiLib = NoLib \/ s.config = NoConfig THEN [s EXCEPT !.ret = FALSE]
    ELSE
      LET s1 == NDI_find_create_v2(s, find_desc(s.config), create_ok)
          s2 == IF s.ndi_finder # nullptr
                THEN NDI_find_destroy(s1, s.ndi_finder)
                ELSE s1
      IN IF s2.crashed THEN s2
         ELSE [s2 EXCEPT !.ndi_finder = s1.retFinder,
                         !.ret = (s1.retFinder # nullptr)]

\* a faulty restart: the old pointer is kept when the creation fails
restart_ndi_finder_keep_stale(s, create_ok) ==
    IF s.ndiLib = NoLib \/ s.config = NoConfig THEN [s EXCEPT !.ret = FALSE]
    ELSE
      LET s1 == IF s.ndi_finder # nullptr
                THEN NDI_find_destroy(s, s.ndi_finder)
                ELSE s
          s2 == NDI_find_create_v2(s1, find_desc(s1.config), create_ok)
      IN IF s2.crashed THEN s2
         ELSE [s2 EXCEPT !.ndi_finder = IF s2.retFinder # nullptr
                                        THEN s2.retFinder ELSE s.ndi_finder,
                         !.ret = (s2.retFinder # nullptr)]

\* a faulty restart: the runtime is initialized again before the create
restart_ndi_finder_reinit(s, create_ok) ==
    IF s.ndiLib = NoLib \/ s.config = NoConfig THEN [s EXCEPT !.ret = FALSE]
    ELSE
      LET d == IF s.ndi_finder # nullptr
               THEN NDI_find_destroy(s, s.ndi_finder)
               ELSE s
          s1 == IF s.ndi_finder # nullptr /\ ~d.crashed
                THEN [d EXCEPT !.ndi_finder = nullptr]
                ELSE d
          s2 == NDI_find_create_v2(NDI_initialize(s1), find_desc(s1.config), create_ok)
      IN IF s2.crashed THEN s2
         ELSE [s2 EXCEPT !.ndi_finder = s2.retFinder,
                         !.ret = (s2.retFinder # nullptr)]

restart_ndi_finder(s, create_ok) ==
    IF s.ndiLib = NoLib \/ s.config = NoConfig THEN [s EXCEPT !.ret = FALSE]
    ELSE
      LET d == IF s.ndi_finder # nullptr
               THEN NDI_find_destroy(s, s.ndi_finder)
               ELSE s
          s1 == IF s.ndi_finder # nullptr /\ ~d.crashed
                THEN [d EXCEPT !.ndi_finder = nullptr]
                ELSE d
          s2 == NDI_find_create_v2(s1, find_desc(s1.config), create_ok)
      IN IF s2.crashed THEN s2
         ELSE [s2 EXCEPT !.ndi_finder = s2.retFinder,
                         !.ret = (s2.retFinder # nullptr)]

\* -------------------------------------------------------- obs_module_load
\* a faulty activation: the result of initialize() is not looked at
obs_module_load_ignore_init(s, main_window, persisted, create_ok) ==
    LET s1 == [s EXCEPT !.config = persisted, !.acts = @ + 1]
    IN IF ~main_window THEN [s1 EXCEPT !.ret = FALSE]
       ELSE
         LET s2 == load_ndilib(s1)
             s3 == [s2 EXCEPT !.ndiLib = s2.retLib]
         IN IF s3.ndiLib = NoLib THEN [s3 EXCEPT !.ret = FALSE]
            ELSE
              LET s4 == NDI_initialize(s3)
                  s5 == restart_ndi_finder(s4, create_ok)
              IN IF s5.crashed \/ ~s5.ret THEN s5
                 ELSE [s5 EXCEPT !.registered = TRUE,
                                 !.output_manager = TRUE,
                                 !.ret = TRUE]

\* a faulty activation: the features are registered before the finder is made
obs_module_load_register_early(s, main_window, persisted, create_ok) ==
    LET s1 == [s EXCEPT !.config = persisted, !.acts = @ + 1]
    IN IF ~main_window THEN [s1 EXCEPT !.ret = FALSE]
       ELSE
         LET s2 == load_ndilib(s1)
             s3 == [s2 EXCEPT !.ndiLib = s2.retLib]
         IN IF s3.ndiLib = NoLib THEN [s3 EXCEPT !.ret = FALSE]
            ELSE
              LET s4 == NDI_initialize(s3)
              IN IF s4.crashed THEN s4
                 ELSE IF ~initialize_ok THEN [s4 EXCEPT !.ret = FALSE]
                 ELSE
                   LET s5 == restart_ndi_finder([s4 EXCEPT !.registered = TRUE,
                                                           !.output_manager = TRUE],
                                                create_ok)
                   IN IF s5.crashed \/ ~s5.ret THEN s5
                      ELSE [s5 EXCEPT !.ret = TRUE]

obs_module_load(s, main_window, persisted, create_ok) ==
    LET s1 == [s EXCEPT !.config = persisted, !.acts = @ + 1]
    IN IF ~main_window THEN [s1 EXCEPT !.ret = FALSE]
       ELSE
         LET s2 == load_ndilib(s1)
             s3 == [s2 EXCEPT !.ndiLib = s2.retLib]
         IN IF s3.ndiLib = NoLib THEN [s3 EXCEPT !.ret = FALSE]
            ELSE
              LET s4 == NDI_initialize(s3)
              IN IF s4.crashed THEN s4
                 ELSE IF ~initialize_ok THEN [s4 EXCEPT !.ret = FALSE]
                 ELSE
                   LET s5 == restart_ndi_finder(s4, create_ok)
                   IN IF s5.crashed \/ ~s5.ret THEN s5
                      ELSE [s5 EXCEPT !.registered = TRUE,
                                      !.output_manager = TRUE,
                                      !.ret = TRUE]

\* ------------------------------------------------------ obs_module_unload
\* a faulty teardown: the library is released first
obs_module_unload_lib_first(s) ==
    LET s0 == [s EXCEPT !.output_manager = FALSE]
        s1 == IF s0.loaded_lib # NoLib
              THEN QLibrary_delete(s0, s0.loaded_lib, s0.loaded_lib \in s0.modules)
              ELSE s0
        s2 == IF s0.ndiLib # NoLib /\ s0.ndi_finder # nullptr
              THEN NDI_find_destroy(s1, s0.ndi_finder)
              ELSE s1
        s3 == IF s0.ndiLib # NoLib THEN NDI_destroy(s2) ELSE s2
    IN [s3 EXCEPT !.ret = TRUE]

obs_module_unload(s) ==
    LET s0 == [s EXCEPT !.output_manager = FALSE]
        s1 == IF s0.ndiLib # NoLib /\ s0.ndi_finder # nullptr
              THEN NDI_find_destroy(s0, s0.ndi_finder)
              ELSE s0
        s2 == IF s0.ndiLib # NoLib THEN NDI_destroy(s1) ELSE s1
        s3 == IF s0.loaded_lib # NoLib
              THEN QLibrary_delete(s2, s0.loaded_lib, s0.loaded_lib \in s2.modules)
              ELSE s2
    IN [s3 EXCEPT !.ret = TRUE]

\* ------------------------------------------------------------------ Init
\* ---------------------------------------------------------- OutputSettings
\* the output names a user may type into the form
OutputNames == {"", "NDI", "Studio"}

\* the values of the three fields of Config that the form writes
OutputConfigs ==
    [OutputEnabled : BOOLEAN, OutputName : OutputNames, OutputAsyncEnabled : BOOLEAN]

DefaultOutputConfig ==
    [OutputEnabled |-> FALSE, OutputName |-> "NDI", OutputAsyncEnabled |-> FALSE]

\* the states of the three widgets of the form
WidgetStates ==
    [outputEnabled : BOOLEAN, outputName : OutputNames, asyncSendingEnabled : BOOLEAN]

\* setChecked / setText of the widgets from a configuration
Widgets(c) ==
    [outputEnabled |-> c.OutputEnabled, outputName |-> c.OutputName,
     asyncSendingEnabled |-> c.OutputAsyncEnabled]

\* the form's state as a record; calls is the log of this handler run
FormSt ==
    [ui |-> ui, conf |-> conf, saved |-> saved, running |-> main_output_running,
     calls |-> <<>>]

\* one call made by the form, with the output's state when it is issued
FormEv(f, op, arg) == [op |-> op, arg |-> arg, running |-> f.running]

\* conf->Save(): writes the current configuration out
Config_Save(f) ==
    [f EXCEPT !.saved = f.conf, !.calls = Append(@, FormEv(f, "Save", f.conf))]

\* main_output_is_running(): answers whether the main output runs
main_output_is_running(f) ==
    [f EXCEPT !.calls = Append(@, FormEv(f, "main_output_is_running", ""))]

\* main_output_stop(): afterwards the main output does not run
main_output_stop(f) ==
    [f EXCEPT !.running = FALSE,
              !.calls = Append(@, FormEv(f, "main_output_stop", ""))]

\* main_output_start(name): the output runs afterwards unless the start fails
main_output_start(f, name, ok) ==
    [f EXCEPT !.running = (@ \/ ok),
              !.calls = Append(@, FormEv(f, "main_output_start", name))]

\* a faulty handler: the output is started without asking whether it runs
onFormAccepted_no_stop(f, start_ok) ==
    LET f1 == [f EXCEPT !.conf = [OutputEnabled |-> f.ui.outputEnabled,
                                  OutputName |-> f.ui.outputName,
                                  OutputAsyncEnabled |-> f.ui.asyncSendingEnabled]]
        f2 == Config_Save(f1)
    IN IF f2.conf.OutputEnabled
       THEN main_output_start(f2, f2.ui.outputName, start_ok)
       ELSE main_output_stop(f2)

\* OutputSettings::onFormAccepted
onFormAccepted(f, start_ok) ==
    LET f1 == [f EXCEPT !.conf = [OutputEnabled |-> f.ui.outputEnabled,
                                  OutputName |-> f.ui.outputName,
                                  OutputAsyncEnabled |-> f.ui.asyncSendingEnabled]]
        f2 == Config_Save(f1)
    IN IF f2.conf.OutputEnabled
       THEN LET f3 == main_output_is_running(f2)
                f4 == IF f2.running THEN main_output_stop(f3) ELSE f3
            IN main_output_start(f4, f4.ui.outputName, start_ok)
       ELSE main_output_stop(f2)

\* OutputSettings::showEvent
showEvent(f) == [f EXCEPT !.ui = Widgets(f.conf)]

CommitForm(f, op) ==
    /\ ui' = f.ui
    /\ conf' = f.conf
    /\ saved' = f.saved
    /\ main_output_running' = f.running
    /\ formCalls' = f.calls
    /\ lastOp' = op
    /\ UNCHANGED <<envvars, progvars, worldvars, calls, ret>>

\* the library file of a directory outside the candidate list, or beyond
\* the first MaxDirs directories, is absent
Present(d) ==
    /\ d <= MaxDirs
    /\ d = RedistDir => redistFolder
    /\ d \in FallbackDirs => posix

InitEnv ==
    /\ redistFolder \in BOOLEAN
    /\ posix \in BOOLEAN
    /\ initialize_ok \in BOOLEAN
    /\ fs \in [Dirs -> Outcomes]
    /\ \A d \in Dirs : ~Present(d) => fs[d] = "absent"

InitProg ==
    /\ config = NoConfig
    /\ output_manager = FALSE
    /\ registered = FALSE
    /\ ndiLib = NoLib
    /\ loaded_lib = NoLib
    /\ ndi_finder = nullptr
    /\ modules = {}
    /\ rt = "Uninitialized"
    /\ live = {}
    /\ acts = 0
    /\ initCalls = 0
    /\ crashed = FALSE
    /\ calls = <<>>
    /\ lastOp = "none"
    /\ ret = FALSE

\* the OutputSettings form as constructed, before it is shown or accepted
InitFormIdle ==
    /\ conf = DefaultOutputConfig
    /\ saved = conf
    /\ ui = Widgets(conf)
    /\ main_output_running = FALSE
    /\ formCalls = <<>>

Init == InitEnv /\ InitProg /\ InitFormIdle

\* --------------------------------------------------------------- actions
\* the host calls obs_module_load
ObsModuleLoad ==
    /\ ~crashed
    /\ acts < MaxLoads
    /\ \E main_window \in BOOLEAN, persisted \in DiscoveryConfig, create_ok \in BOOLEAN :
          \E ubCrash \in Outcomes_ub(obs_module_load(St(FALSE), main_window, persisted,
                                                     create_ok)) :
             Commit(obs_module_load(St(ubCrash), main_window, persisted, create_ok),
                    "obs_module_load")

\* the host calls obs_module_unload
ObsModuleUnload ==
    /\ ~crashed
    /\ \E ubCrash \in Outcomes_ub(obs_module_unload(St(FALSE))) :
          Commit(obs_module_unload(St(ubCrash)), "obs_module_unload")

\* the settings code calls restart_ndi_finder
RestartNdiFinder ==
    /\ ~crashed
    /\ \E create_ok \in BOOLEAN :
          \E ubCrash \in Outcomes_ub(restart_ndi_finder(St(FALSE), create_ok)) :
             Commit(restart_ndi_finder(St(ubCrash), create_ok), "restart_ndi_finder")

\* the settings code changes the configuration held by _config; it makes
\* no external call
ConfigChanged ==
    /\ ~crashed
    /\ config # NoConfig
    /\ \E c \in DiscoveryConfig :
          /\ c # config
          /\ config' = c
    /\ calls' = <<>>
    /\ lastOp' = "config_changed"
    /\ ret' = TRUE
    /\ UNCHANGED <<envvars, output_manager, registered, ndiLib, loaded_lib, ndi_finder,
                   worldvars, formvars>>

Next == ObsModuleLoad \/ ObsModuleUnload \/ RestartNdiFinder \/ ConfigChanged

Spec == Init /\ [][Next]_vars

\* ------------------------------------------- load_ndilib on every filesystem
\* every candidate directory may hold the library file
InitResolve ==
    /\ redistFolder \in BOOLEAN
    /\ posix \in BOOLEAN
    /\ initialize_ok \in BOOLEAN
    /\ fs \in [Dirs -> Outcomes]
    /\ ~redistFolder => fs[RedistDir] = "absent"
    /\ ~posix => \A d \in FallbackDirs : fs[d] = "absent"
    /\ InitProg
    /\ InitFormIdle

\* line 121: ndiLib = load_ndilib()
LoadNdilib ==
    /\ acts = 0
    /\ LET s == load_ndilib([St(FALSE) EXCEPT !.acts = 1])
       IN Commit([s EXCEPT !.ndiLib = s.retLib], "load_ndilib")

SpecResolve == InitResolve /\ [][LoadNdilib]_vars

\* ------------------------------------------------- the OutputSettings form
\* the form over any configuration; the plugin itself is not activated
InitForm ==
    /\ redistFolder = FALSE
    /\ posix = FALSE
    /\ initialize_ok = TRUE
    /\ fs = [d \in Dirs |-> "absent"]
    /\ InitProg
    /\ conf \in OutputConfigs
    /\ saved = conf
    /\ ui = Widgets(conf)
    /\ main_output_running = FALSE
    /\ formCalls = <<>>

\* the user presses OK: the accepted() signal runs onFormAccepted
OnFormAccepted ==
    \E start_ok \in BOOLEAN : CommitForm(onFormAccepted(FormSt, start_ok), "onFormAccepted")

\* the form is shown
ShowEvent == CommitForm(showEvent(FormSt), "showEvent")

\* the user changes a widget of the form
UiEdit ==
    \E w \in WidgetStates :
        /\ w # ui
        /\ CommitForm([FormSt EXCEPT !.ui = w], "edit")

NextForm == OnFormAccepted \/ ShowEvent \/ UiEdit

SpecForm == InitForm /\ [][NextForm]_vars

\* ============================================================ properties
Last(q) == q[Len(q)]
IsCreate(e) == e.op = "find_create_v2"

\* C1: restart_ndi_finder destroys an existing handle before it creates the
\* replacement: at every instant at most one discovery handle is live, no
\* handle is live when find_create_v2 is issued, and a handle that was live
\* when the operation began has received exactly one find_destroy call
\* before that find_create_v2.
C1_DestroyBeforeCreate ==
    /\ Cardinality(live) <= 1
    /\ \A i \in DOMAIN calls :
         /\ Cardinality(calls[i].live) <= 1
         /\ IsCreate(calls[i]) =>
              /\ calls[i].live = {}
              /\ \A h \in calls[1].live :
                   Cardinality({j \in 1 .. (i - 1) :
                                  calls[j].op = "find_destroy" /\ calls[j].h = h}) = 1

\* a restart that superseded a live handle: one destroy, then one create
C1_Witness ==
    /\ lastOp = "restart_ndi_finder"
    /\ Len(calls) = 2
    /\ calls[1].op = "find_destroy"
    /\ calls[1].h \in calls[1].live
    /\ IsCreate(calls[2])
    /\ calls[2].ok
    /\ live = {ndi_finder}

\* the candidates whose file exists, loads and has the entry symbol
ValidIdx == {i \in DOMAIN libraryLocations : fs[libraryLocations[i]] = "valid"}

\* C2: load_ndilib returns the capability table of the first candidate, in
\* list order, that exists, loads and resolves the entry symbol, and
\* returns null exactly when no candidate is valid.
C2_FirstValidWins ==
    lastOp = "load_ndilib" =>
        IF ValidIdx = {} THEN ndiLib = NoLib
        ELSE /\ ndiLib # NoLib
             /\ \E i \in ValidIdx :
                  /\ ndiLib[2] = libraryLocations[i]
                  /\ \A j \in ValidIdx : i <= j

\* two valid candidates, the first of them behind an invalid one
C2_Witness ==
    /\ lastOp = "load_ndilib"
    /\ Cardinality(ValidIdx) >= 2
    /\ 1 \notin ValidIdx
    /\ fs[libraryLocations[1]] # "absent"
    /\ ndiLib # NoLib

\* C3: a second obs_module_unload is a no-op: it issues no find_destroy, no
\* destroy and no delete.
C3_SecondTeardownNoop ==
    [][(ObsModuleUnload /\ lastOp = "obs_module_unload") => calls' = <<>>]_vars

\* C4: when obs_module_load reports failure, nothing acquired is left: no
\* module loaded, the runtime not initialized, no discovery handle live.
C4_FailureUnwound ==
    (lastOp = "obs_module_load" /\ ~ret /\ ~crashed) =>
        /\ modules = {}
        /\ rt # "Initialized"
        /\ live = {}

\* C5: during load_ndilib at most one module is held loaded at any point of
\* the search, and on success exactly one module remains loaded.
C5_OneModuleHeld ==
    lastOp = "load_ndilib" =>
        /\ \A i \in DOMAIN calls : Cardinality(calls[i].mods) <= 1
        /\ Cardinality(modules) <= 1
        /\ ndiLib # NoLib => Cardinality(modules) = 1

\* C6: find_create_v2 is only issued while the runtime is initialized.
C6_CreateOnlyInitialized ==
    \A i \in DOMAIN calls : IsCreate(calls[i]) => calls[i].rt = "Initialized"

\* position of a release call in the reverse-acquisition order
ReleaseRank(op) ==
    CASE op = "find_destroy" -> 1
      [] op = "destroy" -> 2
      [] op = "delete" -> 3
      [] OTHER -> 0

GroupPtr(cfg) == IF cfg.groupFilter = NoGroup THEN NULLPTR ELSE c_str(cfg.groupFilter)

C9_FailedCreateLeavesNone ==
    [][/\ (/\ lastOp' = "restart_ndi_finder"
           /\ ~crashed'
           /\ calls' # <<>>
           /\ IsCreate(Last(calls'))
           /\ ~Last(calls').ok) =>
              /\ ndi_finder' = nullptr
              /\ live' = {}
              /\ ~ret'
       /\ (live = {} /\ live' # {}) =>
              /\ Cardinality(live') = 1
              /\ ndi_finder' \in live'
              /\ ret'
              /\ IsCreate(Last(calls'))
              /\ Last(calls').ok]_vars

\* a restart whose creation failed after it destroyed the live handle
C9_Witness ==
    /\ lastOp = "restart_ndi_finder"
    /\ ~ret
    /\ Len(calls) = 2
    /\ calls[1].op = "find_destroy"
    /\ calls[1].h \in calls[1].live
    /\ IsCreate(calls[2])
    /\ ~calls[2].ok
    /\ live = {}

\* the three states teardown is called from
NothingInitialized ==
    /\ ndiLib = NoLib
    /\ loaded_lib = NoLib
    /\ modules = {}
    /\ rt = "Uninitialized"
    /\ live = {}
OnlyLibraryLoaded ==
    /\ loaded_lib \in modules
    /\ rt # "Initialized"
    /\ live = {}
FullyInitialized ==
    /\ loaded_lib \in modules
    /\ ndiLib = loaded_lib
    /\ rt = "Initialized"
    /\ ndi_finder \in live

\* C10: from each of the three states obs_module_unload completes without
\* fault and leaves no live handle, no initialized runtime and no loaded
\* module.
C10_TeardownLeavesNothing ==
    [][(/\ ObsModuleUnload
        /\ NothingInitialized \/ OnlyLibraryLoaded \/ FullyInitialized) =>
           /\ ~crashed'
           /\ \A i \in DOMAIN calls' : ~calls'[i].ub
           /\ live' = {}
           /\ rt' # "Initialized"
           /\ modules' = {}]_vars

\* C11: the runtime's initialize entry is invoked at most once in the life
\* of the process, whatever sequence of activations and teardowns is run.
C11_InitializeOnce == initCalls <= 1

\* the search reaches candidate i: no candidate before it is valid
Reached(i) == \A j \in ValidIdx : i <= j

\* C12: a candidate whose file exists but fails to load has its QLibrary
\* deleted right after the failed load, and the search goes on with the
\* candidates after it: each later file that exists is tried, and a valid
\* candidate after it is still returned.
C12_LoadFailureContinues ==
    lastOp = "load_ndilib" =>
        \A i \in DOMAIN libraryLocations :
            (fs[libraryLocations[i]] = "loadfail" /\ Reached(i)) =>
                LET obj == <<1, libraryLocations[i]>>
                IN /\ \E k \in DOMAIN calls :
                         /\ calls[k].op = "load"
                         /\ calls[k].obj = obj
                         /\ ~calls[k].ok
                         /\ k + 1 \in DOMAIN calls
                         /\ calls[k + 1].op = "delete"
                         /\ calls[k + 1].obj = obj
                   /\ obj \notin modules
                   /\ loaded_lib # obj
                   /\ \A j \in (i + 1) .. Len(libraryLocations) :
                         (fs[libraryLocations[j]] # "absent" /\ Reached(j)) =>
                             \E k \in DOMAIN calls :
                                 /\ calls[k].op = "new"
                                 /\ calls[k].obj = <<1, libraryLocations[j]>>
                   /\ (\E j \in ValidIdx : j > i) =>
                         /\ ndiLib # NoLib
                         /\ \E j \in ValidIdx : /\ j > i
                                                 /\ libraryLocations[j] = ndiLib[2]

\* a file that fails to load in front of a valid candidate, which is returned
C12_Witness ==
    /\ lastOp = "load_ndilib"
    /\ Len(libraryLocations) >= 2
    /\ fs[libraryLocations[1]] = "loadfail"
    /\ ValidIdx # {}
    /\ ndiLib # NoLib

\* C13: when the override directory is set and holds a valid library,
\* load_ndilib returns the table loaded from the override directory,
\* whichever fallback directories hold a valid library too.
C13_OverrideWins ==
    (lastOp = "load_ndilib" /\ redistFolder /\ fs[RedistDir] = "valid") =>
        /\ ndiLib = <<1, RedistDir>>
        /\ loaded_lib = <<1, RedistDir>>
        /\ modules = {<<1, RedistDir>>}
        /\ \A k \in DOMAIN calls : calls[k].obj = <<1, RedistDir>>

\* the override and a platform fallback both hold a valid library
C13_Witness ==
    /\ lastOp = "load_ndilib"
    /\ redistFolder
    /\ posix
    /\ fs[RedistDir] = "valid"
    /\ \E d \in FallbackDirs : fs[d] = "valid"
    /\ ndiLib = <<1, RedistDir>>

\* C14: when initialize() returns false, obs_module_load returns false
\* right there: the failed initialize is the last external call of the
\* activation, and no find_create_v2 is issued in it.
C14_InitFailureAborts ==
    lastOp = "obs_module_load" =>
        \A k \in DOMAIN calls :
            (calls[k].op = "initialize" /\ ~calls[k].ok) =>
                /\ ~ret
                /\ k = Len(calls)
                /\ \A j \in DOMAIN calls : ~IsCreate(calls[j])

\* an activation whose library loaded and whose initialize() failed
C14_Witness ==
    /\ lastOp = "obs_module_load"
    /\ ndiLib # NoLib
    /\ calls # <<>>
    /\ Last(calls).op = "initialize"
    /\ ~Last(calls).ok
    /\ ~ret

\* C15: obs_module_unload calls the runtime's destroy() only when the
\* runtime is initialized; not when initialize() failed or was never made.
C15_DestroyOnlyInitialized ==
    lastOp = "obs_module_unload" =>
        \A k \in DOMAIN calls :
            calls[k].op = "destroy" => calls[k].rt = "Initialized"

\* C16: in every state, when no library is loaded (never loaded, or
\* released by the teardown) the stored capability table ndiLib and the
\* stored discovery handle ndi_finder are both null.
C16_NoReferenceOutlivesLibrary ==
    (~crashed /\ modules = {}) => (ndiLib = NoLib /\ ndi_finder = nullptr)

\* C17: restart_ndi_finder leaves the loaded library, the capability table
\* and the runtime state as they were, whether it returns true or false:
\* its only external calls are find_destroy and find_create_v2.
C17_RestartFrame ==
    [][lastOp' = "restart_ndi_finder" =>
          /\ modules' = modules
          /\ loaded_lib' = loaded_lib
          /\ ndiLib' = ndiLib
          /\ rt' = rt
          /\ initCalls' = initCalls
          /\ config' = config
          /\ registered' = registered
          /\ \A k \in DOMAIN calls' :
                calls'[k].op \in {"find_destroy", "find_create_v2"}]_vars

\* a restart that replaced the handle of an initialized runtime
C17_Witness ==
    /\ lastOp = "restart_ndi_finder"
    /\ Len(calls) = 2
    /\ calls[1].op = "find_destroy"
    /\ IsCreate(calls[2])
    /\ rt = "Initialized"
    /\ modules # {}
    /\ ~crashed

\* the step of the activation an external call belongs to
AcquireRank(e) ==
    IF e.op \in {"new", "load", "resolve", "delete"} THEN 1
    ELSE IF e.op = "initialize" THEN 2
    ELSE IF e.op \in {"find_destroy", "find_create_v2"} THEN 3
    ELSE 0

\* C18: obs_module_load works in the order library load, runtime
\* initialize, finder create; it returns true, with the input and output
\* features and the settings dialog registered, only when the library
\* loaded, initialize() succeeded and find_create_v2 gave a handle; when it
\* returns false it registers nothing.
C18_AcquisitionOrder ==
    [][lastOp' = "obs_module_load" =>
          /\ \A j, k \in DOMAIN calls' :
                j < k => /\ AcquireRank(calls'[j]) # 0
                         /\ AcquireRank(calls'[j]) <= AcquireRank(calls'[k])
          /\ ret' =>
                /\ registered' /\ output_manager'
                /\ ndiLib' # NoLib
                /\ \E k \in DOMAIN calls' :
                      /\ calls'[k].op = "resolve" /\ calls'[k].ok
                      /\ calls'[k].obj = ndiLib'
                /\ \E k \in DOMAIN calls' :
                      calls'[k].op = "initialize" /\ calls'[k].ok
                /\ IsCreate(Last(calls')) /\ Last(calls').ok
                /\ ndi_finder' = Last(calls').h
                /\ ndi_finder' # nullptr
          /\ ~ret' =>
                /\ registered' = registered
                /\ output_manager' = output_manager]_vars

\* an activation that went through its three steps and registered
C18_Witness ==
    /\ lastOp = "obs_module_load"
    /\ ret
    /\ registered
    /\ \E i, j, k \in DOMAIN calls :
          /\ i < j /\ j < k
          /\ calls[i].op = "resolve" /\ calls[i].ok
          /\ calls[j].op = "initialize" /\ calls[j].ok
          /\ IsCreate(calls[k]) /\ calls[k].ok

\* positions in the form's call log of the calls named op
FormIdx(op) == {k \in DOMAIN formCalls : formCalls[k].op = op}

\* C19: in onFormAccepted main_output_start is never called while the main
\* output runs: with the output enabled and running, main_output_stop comes
\* before main_output_start; with the output disabled, main_output_stop is
\* called and main_output_start is not; and Save comes before every start
\* and stop.
C19_NoStartWhileRunning ==
    lastOp = "onFormAccepted" =>
        /\ \A k \in FormIdx("main_output_start") : ~formCalls[k].running
        /\ formCalls[1].op = "Save"
        /\ formCalls[1].arg = conf
        /\ saved = conf
        /\ \A k \in FormIdx("main_output_start") \cup FormIdx("main_output_stop") :
              \E j \in FormIdx("Save") : j < k
        /\ conf.OutputEnabled =>
              /\ Cardinality(FormIdx("main_output_start")) = 1
              /\ Last(formCalls).op = "main_output_start"
              /\ Last(formCalls).arg = ui.outputName
              /\ \A r \in FormIdx("main_output_is_running") :
                    formCalls[r].running =>
                        \E j \in FormIdx("main_output_stop") :
                            /\ r < j
                            /\ \A k \in FormIdx("main_output_start") : j < k
        /\ ~conf.OutputEnabled =>
              /\ FormIdx("main_output_start") = {}
              /\ FormIdx("main_output_stop") # {}
              /\ ~main_output_running

\* the form accepted with the output enabled while the output was running
C19_Witness ==
    /\ lastOp = "onFormAccepted"
    /\ conf.OutputEnabled
    /\ Len(formCalls) = 4
    /\ formCalls[2].op = "main_output_is_running"
    /\ formCalls[2].running
    /\ formCalls[3].op = "main_output_stop"
    /\ formCalls[4].op = "main_output_start"

====
